---------------------------- MODULE Spec2Model ----------------------------
(***************************************************************************)
(* State-machine model of the professionals ETL (src/etl_professionals.py).*)
(*                                                                         *)
(* The state is the DuckDB store (seven tables) together with the inputs   *)
(* and outcome of the latest run_etl_pipeline invocation.  A table is the  *)
(* sequence of its rows in insertion order; a row is a record whose fields *)
(* carry the column names of create_tables.  One invocation is one step:   *)
(* the program is single-threaded and every statement autocommits.         *)
(*                                                                         *)
(* Encoding of values.  JSON null / Python None / SQL NULL in a string     *)
(* column is the string None.  A raw date is the JSON string; a parsed     *)
(* date (pandas datetime64, SQL DATE) is its day ordinal, NaT for NULL.    *)
(***************************************************************************)
EXTENDS Integers, Sequences, FiniteSets, TLC

\* Bound on the number of pipeline invocations in one behaviour.
MaxRuns == 3

None == "<None>"
NaT == 0
EpochFloor == 1

\* Calendar of the well-formed date strings of the model and their ordinals.
DateOrdinal ==
    [d \in {"2020-01-01", "2021-01-01", "2021-02-01", "2022-01-01"} |->
        CASE d = "2020-01-01" -> 2
          [] d = "2021-01-01" -> 3
          [] d = "2021-02-01" -> 4
          [] d = "2022-01-01" -> 5]

\* pd.to_datetime(column, errors='coerce'), element-wise: a well-formed date
\* string parses, None and anything else become NaT.
to_datetime(raw) == IF raw \in DOMAIN DateOrdinal THEN DateOrdinal[raw] ELSE NaT

\* dict.get(key, default)
Get(obj, key, default) == IF key \in DOMAIN obj THEN obj[key] ELSE default

Range(s) == {s[i] : i \in 1..Len(s)}

RECURSIVE Concat(_)
\* Concatenation of a sequence of sequences.
Concat(ss) == IF ss = <<>> THEN <<>> ELSE Head(ss) \o Concat(Tail(ss))

\* A sequence given as a function on 1..n.  TLC keeps a function constructor
\* unevaluated and evaluates it again at every application; concatenation
\* yields the same sequence with its elements evaluated once.
Tuple(f) == f \o <<>>

\* The same for a function on a finite set.
Table(f) == f @@ [x \in {} |-> x]

Map(s, F(_)) == Tuple([i \in 1..Len(s) |-> F(s[i])])

-----------------------------------------------------------------------------
(* Record Flattener: lines 12-67 *)

ProfessionalRow(prof) ==
    [professional_id  |-> Get(prof, "professional_id", None),
     years_experience |-> Get(prof, "years_experience", None),
     current_industry |-> Get(prof, "current_industry", None),
     current_role     |-> Get(prof, "current_role", None),
     education_level  |-> Get(prof, "education_level", None)]

\* is_current is taken from the raw end_date, before any date coercion.
JobRow(prof, job) ==
    [job_id          |-> Get(job, "job_id", None),
     professional_id |-> Get(prof, "professional_id", None),
     company         |-> Get(job, "company", None),
     role            |-> Get(job, "role", None),
     start_date      |-> Get(job, "start_date", None),
     end_date        |-> Get(job, "end_date", None),
     is_current      |-> (Get(job, "end_date", None) = None)]

SkillRow(prof, skill) ==
    [professional_id   |-> Get(prof, "professional_id", None),
     skill_name        |-> Get(skill, "skill_name", None),
     proficiency_level |-> Get(skill, "proficiency_level", None)]

CertificationRow(prof, cert) ==
    [professional_id      |-> Get(prof, "professional_id", None),
     certification_id     |-> Get(cert, "certification_id", None),
     certification_name   |-> Get(cert, "certification_name", None),
     issuing_organization |-> Get(cert, "issuing_organization", None),
     date_earned          |-> Get(cert, "date_earned", None)]

EducationRow(prof, edu) ==
    [professional_id |-> Get(prof, "professional_id", None),
     education_id    |-> Get(edu, "education_id", ""),
     degree          |-> Get(edu, "degree", None),
     institution     |-> Get(edu, "institution", None),
     field_of_study  |-> Get(edu, "field_of_study", None),
     graduation_date |-> Get(edu, "graduation_date", None)]

\* The five flat collections, in document order.
Flatten(document) ==
    LET profs == Get(document, "professionals", <<>>)
        Nested(prof, key, Row(_, _)) ==
            LET items == Get(prof, key, <<>>)
            IN  Tuple([i \in 1..Len(items) |-> Row(prof, items[i])])
        J(prof) == Nested(prof, "jobs", JobRow)
        S(prof) == Nested(prof, "skills", SkillRow)
        C(prof) == Nested(prof, "certifications", CertificationRow)
        E(prof) == Nested(prof, "education", EducationRow)
    IN  [professionals  |-> Map(profs, ProfessionalRow),
         jobs           |-> Concat(Map(profs, J)),
         skills         |-> Concat(Map(profs, S)),
         certifications |-> Concat(Map(profs, C)),
         education      |-> Concat(Map(profs, E))]

-----------------------------------------------------------------------------
(* Validator: lines 76-88 *)

\* dfs['professionals']['professional_id'] and dfs['jobs']['start_date'] are
\* looked up on frames built from the flat lists: a frame built from an empty
\* list has no columns and the lookup raises KeyError, outside any try.
ValidationRaises(dfs0) == dfs0.professionals = <<>> \/ dfs0.jobs = <<>>

missing_prof_ids(dfs0) ==
    Cardinality({i \in 1..Len(dfs0.professionals) :
                    dfs0.professionals[i].professional_id = None})

\* The two job date columns are overwritten by their coerced values.
CoerceJob(j) ==
    [j EXCEPT !.start_date = to_datetime(j.start_date),
              !.end_date   = to_datetime(j.end_date)]

Validate(dfs0) == [dfs0 EXCEPT !.jobs = Map(dfs0.jobs, CoerceJob)]

invalid_dates(dfs) ==
    Cardinality({i \in 1..Len(dfs.jobs) :
                    /\ dfs.jobs[i].start_date # NaT
                    /\ dfs.jobs[i].end_date # NaT
                    /\ dfs.jobs[i].end_date < dfs.jobs[i].start_date})

-----------------------------------------------------------------------------
(* The relational store.  A store value is a record holding the seven      *)
(* tables and `error`: None, or the name of the statement that raised.     *)
(* A statement that raises changes nothing (autocommit: it is its own      *)
(* transaction) and every later statement of the try block is skipped.     *)

TableNames ==
    {"dim_professional", "fact_professional_job", "fact_professional_skill",
     "dim_certification", "dim_education",
     "fact_professional_certification", "fact_professional_education"}

\* create_tables on a fresh store: seven empty tables.  On an existing store
\* CREATE TABLE IF NOT EXISTS changes nothing.
create_tables ==
    [dim_professional                |-> <<>>,
     fact_professional_job           |-> <<>>,
     fact_professional_skill         |-> <<>>,
     dim_certification               |-> <<>>,
     dim_education                   |-> <<>>,
     fact_professional_certification |-> <<>>,
     fact_professional_education     |-> <<>>,
     error                           |-> None]

\* Faulty variant: the key column declared NOT NULL instead of PRIMARY KEY.
NotNullViolated(table, rows, key) == \E i \in 1..Len(rows) : rows[i][key] = None

\* The PRIMARY KEY of create_tables (unique and not null), checked when
\* `rows` are inserted into `table`.
PrimaryKeyViolated(table, rows, key) ==
    \/ \E i \in 1..Len(rows) : rows[i][key] = None
    \/ \E i \in 1..Len(rows), j \in 1..Len(table) : rows[i][key] = table[j][key]
    \/ \E i, j \in 1..Len(rows) : i < j /\ rows[i][key] = rows[j][key]

\* Faulty variant: a statement runs although an earlier one raised.
ExecuteRegardless(s, statement, raises, after) ==
    IF raises THEN [s EXCEPT !.error = statement] ELSE after

\* One statement inside a loader's try block.
Execute(s, statement, raises, after) ==
    IF s.error # None THEN s
    ELSE IF raises THEN [s EXCEPT !.error = statement]
    ELSE after

\* Faulty variant: the DELETE of the skill table is left out.
DeleteAllButSkills(s, table) ==
    IF table = "fact_professional_skill" THEN s
    ELSE Execute(s, "DELETE " \o table, FALSE, [s EXCEPT ![table] = <<>>])

\* conn.execute("DELETE FROM <table>")
DeleteAll(s, table) == Execute(s, "DELETE " \o table, FALSE, [s EXCEPT ![table] = <<>>])

\* Faulty variant: the inserted rows replace the rows of the table.
InsertReplacing(s, table, rows, key) ==
    Execute(s, "INSERT " \o table, PrimaryKeyViolated(s[table], rows, key),
            [s EXCEPT ![table] = rows])

\* conn.execute("INSERT INTO <table> ...") of `rows` under primary key `key`.
InsertKeyed(s, table, rows, key) ==
    Execute(s, "INSERT " \o table, PrimaryKeyViolated(s[table], rows, key),
            [s EXCEPT ![table] = @ \o rows])

\* The same for a table without a primary key.
InsertPlain(s, table, rows) ==
    Execute(s, "INSERT " \o table, FALSE, [s EXCEPT ![table] = @ \o rows])

\* Faulty variant: the DELETE without its WHERE clause.
DeleteEveryProfessional(s, table, prof_ids) ==
    Execute(s, "DELETE " \o table, None \in prof_ids, [s EXCEPT ![table] = <<>>])

\* f"DELETE FROM <table> WHERE professional_id IN {tuple(prof_ids)}": a None
\* among the ids is rendered as the bare word None, which is no column of
\* the table, and the statement raises.
DeleteByProfessional(s, table, prof_ids) ==
    Execute(s, "DELETE " \o table, None \in prof_ids,
            [s EXCEPT ![table] =
                SelectSeq(@, LAMBDA r : r.professional_id \notin prof_ids)])

\* VARCHAR collation of the professional identifiers of the model.
Collate(id) == CASE id = "P1" -> 1 [] id = "P2" -> 2 [] OTHER -> 3

\* Faulty variant: the window without its ORDER BY.
FrameOrder(rows, ties) == rows

\* ROW_NUMBER() OVER (ORDER BY professional_id): the rows in ascending
\* professional_id.  SQL leaves the order of rows with equal keys open:
\* `ties` selects it ("fwd": frame order, "rev": reversed).
OrderByProfessional(rows, ties) ==
    LET n == Len(rows)
        Before(i, j) ==
            \/ Collate(rows[i].professional_id) < Collate(rows[j].professional_id)
            \/ /\ rows[i].professional_id = rows[j].professional_id
               /\ IF ties = "fwd" THEN i < j ELSE j < i
        Pos(i) == 1 + Cardinality({j \in 1..n : Before(j, i)})
    IN  Tuple([p \in 1..n |-> rows[CHOOSE i \in 1..n : Pos(i) = p]])

RECURSIVE Distinct(_)
\* SELECT DISTINCT: one copy of each row, in order of first occurrence.
Distinct(rows) ==
    IF rows = <<>> THEN <<>>
    ELSE LET init == Distinct(SubSeq(rows, 1, Len(rows) - 1))
             last == rows[Len(rows)]
         IN  IF last \in Range(init) THEN init ELSE Append(init, last)

\* CAST(x AS DATE) of a VARCHAR: NULL stays NULL, a well-formed date string
\* converts, anything else is a conversion error.
CastRaises(raw) == raw # None /\ raw \notin DOMAIN DateOrdinal
CastDate(raw) == to_datetime(raw)

\* Faulty variant: ">=" for ">".
DateGreaterOrEqual(a, b) == a # NaT /\ b # NaT /\ a >= b

\* SQL ">" on dates: a comparison with NULL is not true.
DateGreater(a, b) == a # NaT /\ b # NaT /\ a > b

\* COALESCE(MAX(<dates>), '1900-01-01')
Watermark(dates) ==
    LET known == dates \ {NaT}
    IN  IF known = {} THEN EpochFloor
        ELSE CHOOSE m \in known : \A d \in known : d <= m

-----------------------------------------------------------------------------
(* Projections and queries shared by the two loaders *)

DimCertificationRow(c) ==
    [certification_id     |-> c.certification_id,
     certification_name   |-> c.certification_name,
     issuing_organization |-> c.issuing_organization]

DimEducationRow(e) ==
    [education_id   |-> e.education_id,
     degree         |-> e.degree,
     institution    |-> e.institution,
     field_of_study |-> e.field_of_study]

\* SELECT ROW_NUMBER() OVER (ORDER BY professional_id) as id, professional_id,
\*        skill_name, proficiency_level FROM skills
NumberedSkills(skills, ties) ==
    LET o == OrderByProfessional(skills, ties)
    IN  Tuple([i \in 1..Len(o) |->
            [id                |-> i,
             professional_id   |-> o[i].professional_id,
             skill_name        |-> o[i].skill_name,
             proficiency_level |-> o[i].proficiency_level]])

\* Faulty variant: the join without its ON condition.
CrossJoinDim(rows, dim, key) ==
    LET Partners(r) == Tuple([k \in 1..Len(dim) |-> [r EXCEPT ![key] = dim[k][key]]])
    IN  Concat(Map(rows, Partners))

\* <rows> r JOIN <dim> d ON r.<key> = d.<key>: each row of the frame once per
\* partner in the dimension (NULL joins nothing), carrying the partner's key
\* (the statements select d.<key>).
JoinDim(rows, dim, key) ==
    LET Partners(r) ==
            LET hits == SelectSeq(dim, LAMBDA d : r[key] # None /\ d[key] = r[key])
            IN  Tuple([k \in 1..Len(hits) |-> [r EXCEPT ![key] = hits[k][key]]])
    IN  Concat(Map(rows, Partners))

\* SELECT ROW_NUMBER() OVER (ORDER BY c.professional_id) as id,
\*        c.professional_id, d.certification_id, CAST(c.date_earned AS DATE)
NumberedCertifications(joined, ties) ==
    LET o == OrderByProfessional(joined, ties)
    IN  Tuple([i \in 1..Len(o) |->
            [id               |-> i,
             professional_id  |-> o[i].professional_id,
             certification_id |-> o[i].certification_id,
             date_earned      |-> CastDate(o[i].date_earned)]])

NumberedEducation(joined, ties) ==
    LET o == OrderByProfessional(joined, ties)
    IN  Tuple([i \in 1..Len(o) |->
            [id              |-> i,
             professional_id |-> o[i].professional_id,
             education_id    |-> o[i].education_id,
             graduation_date |-> CastDate(o[i].graduation_date)]])

AnyCastRaises(rows, column) == \E i \in 1..Len(rows) : CastRaises(rows[i][column])

-----------------------------------------------------------------------------
(* Full-Refresh Loader: lines 184-216.  The value is the store after the   *)
(* try block; full_refresh returns True iff its error is None.             *)

FullCertifications(s, dfs, ties) ==
    IF dfs.certifications = <<>> THEN s
    ELSE LET s1 == DeleteAll(s, "dim_certification")
             s2 == InsertKeyed(s1, "dim_certification",
                               Distinct(Map(dfs.certifications, DimCertificationRow)),
                               "certification_id")
             joined == JoinDim(dfs.certifications, s2.dim_certification,
                               "certification_id")
         IN  Execute(s2, "INSERT fact_professional_certification",
                     AnyCastRaises(joined, "date_earned"),
                     [s2 EXCEPT !.fact_professional_certification =
                         @ \o NumberedCertifications(joined, ties)])

FullEducation(s, dfs, ties) ==
    IF dfs.education = <<>> THEN s
    ELSE LET s1 == DeleteAll(s, "dim_education")
             s2 == InsertKeyed(s1, "dim_education",
                               Distinct(Map(dfs.education, DimEducationRow)),
                               "education_id")
             joined == JoinDim(dfs.education, s2.dim_education, "education_id")
         IN  Execute(s2, "INSERT fact_professional_education",
                     AnyCastRaises(joined, "graduation_date"),
                     [s2 EXCEPT !.fact_professional_education =
                         @ \o NumberedEducation(joined, ties)])

full_refresh(s, dfs, ties) ==
    LET d1 == DeleteAll(s, "fact_professional_education")
        d2 == DeleteAll(d1, "fact_professional_certification")
        d3 == DeleteAll(d2, "fact_professional_skill")
        d4 == DeleteAll(d3, "fact_professional_job")
        d5 == DeleteAll(d4, "dim_professional")
        p  == IF dfs.professionals = <<>> THEN d5
              ELSE InsertKeyed(d5, "dim_professional", dfs.professionals,
                               "professional_id")
        j  == IF dfs.jobs = <<>> THEN p
              ELSE InsertKeyed(p, "fact_professional_job", dfs.jobs, "job_id")
        k  == IF dfs.skills = <<>> THEN j
              ELSE InsertPlain(j, "fact_professional_skill",
                               NumberedSkills(dfs.skills, ties))
        c  == FullCertifications(k, dfs, ties)
    IN  FullEducation(c, dfs, ties)

-----------------------------------------------------------------------------
(* Incremental Loader: lines 218-273 *)

IncrementalProfessionals(s, dfs) ==
    IF dfs.professionals = <<>> THEN s
    ELSE LET prof_ids == {dfs.professionals[i].professional_id :
                             i \in 1..Len(dfs.professionals)}
             s1 == DeleteByProfessional(s, "dim_professional", prof_ids)
         IN  InsertKeyed(s1, "dim_professional", dfs.professionals,
                         "professional_id")

\* SELECT * FROM jobs j WHERE j.start_date >
\*   (SELECT COALESCE(MAX(start_date), '1900-01-01')
\*    FROM fact_professional_job f WHERE f.professional_id = j.professional_id)
NewJobs(table, jobs) ==
    LET Recorded(pid) == {table[i].start_date :
                             i \in {k \in 1..Len(table) :
                                       table[k].professional_id = pid}}
    IN  SelectSeq(jobs, LAMBDA j :
            DateGreater(j.start_date, Watermark(Recorded(j.professional_id))))

IncrementalJobs(s, dfs) ==
    IF dfs.jobs = <<>> THEN s
    ELSE InsertKeyed(s, "fact_professional_job",
                     NewJobs(s.fact_professional_job, dfs.jobs), "job_id")

IncrementalSkills(s, dfs, ties) ==
    IF dfs.skills = <<>> THEN s
    ELSE LET prof_ids == {dfs.skills[i].professional_id : i \in 1..Len(dfs.skills)}
             s1 == DeleteByProfessional(s, "fact_professional_skill", prof_ids)
         IN  InsertPlain(s1, "fact_professional_skill",
                         NumberedSkills(dfs.skills, ties))

\* SELECT DISTINCT <columns> FROM <frame> EXCEPT SELECT <columns> FROM <dim>
ExceptDim(tuples, dim) == SelectSeq(Distinct(tuples), LAMBDA t : t \notin Range(dim))

\* Faulty variant: the bridge insert without its WHERE clause.
AllBridgeRows(joined, bridge, key, column) == joined

\* The joined frame rows whose date exceeds the watermark of their
\* (professional, dimension key) pair in the bridge table.
NewBridgeRows(joined, bridge, key, column) ==
    LET Recorded(r) == {bridge[i][column] :
                           i \in {k \in 1..Len(bridge) :
                                     /\ bridge[k].professional_id = r.professional_id
                                     /\ bridge[k][key] = r[key]}}
    IN  SelectSeq(joined, LAMBDA r :
            DateGreater(CastDate(r[column]), Watermark(Recorded(r))))

IncrementalCertifications(s, dfs, ties) ==
    IF dfs.certifications = <<>> THEN s
    ELSE LET s1 == InsertKeyed(s, "dim_certification",
                               ExceptDim(Map(dfs.certifications, DimCertificationRow),
                                         s.dim_certification),
                               "certification_id")
             joined == JoinDim(dfs.certifications, s1.dim_certification,
                               "certification_id")
             new == NewBridgeRows(joined, s1.fact_professional_certification,
                                  "certification_id", "date_earned")
         IN  Execute(s1, "INSERT fact_professional_certification",
                     AnyCastRaises(joined, "date_earned"),
                     [s1 EXCEPT !.fact_professional_certification =
                         @ \o NumberedCertifications(new, ties)])

IncrementalEducation(s, dfs, ties) ==
    IF dfs.education = <<>> THEN s
    ELSE LET s1 == InsertKeyed(s, "dim_education",
                               ExceptDim(Map(dfs.education, DimEducationRow),
                                         s.dim_education),
                               "education_id")
             joined == JoinDim(dfs.education, s1.dim_education, "education_id")
             new == NewBridgeRows(joined, s1.fact_professional_education,
                                  "education_id", "graduation_date")
         IN  Execute(s1, "INSERT fact_professional_education",
                     AnyCastRaises(joined, "graduation_date"),
                     [s1 EXCEPT !.fact_professional_education =
                         @ \o NumberedEducation(new, ties)])

incremental_load(s, dfs, ties) ==
    LET p == IncrementalProfessionals(s, dfs)
        j == IncrementalJobs(p, dfs)
        k == IncrementalSkills(j, dfs, ties)
        c == IncrementalCertifications(k, dfs, ties)
    IN  IncrementalEducation(c, dfs, ties)

-----------------------------------------------------------------------------
(* Input documents.  Each behaviour draws its documents from one family,   *)
(* which varies one nested collection and keeps the others minimal.        *)

Job(id, start, end) ==
    [job_id |-> id, company |-> "Acme", role |-> "Engineer",
     start_date |-> start, end_date |-> end]

Skill(name, level) == [skill_name |-> name, proficiency_level |-> level]

Cert(id, name, earned) ==
    [certification_id |-> id, certification_name |-> name,
     issuing_organization |-> "Board", date_earned |-> earned]

Edu(id, degree, graduated) ==
    [education_id |-> id, degree |-> degree, institution |-> "Uni",
     field_of_study |-> "CS", graduation_date |-> graduated]

Prof(id, years, jobs, skills, certs, edus) ==
    [professional_id |-> id, years_experience |-> years,
     current_industry |-> "Tech", current_role |-> "Engineer",
     education_level |-> "BSc",
     jobs |-> jobs, skills |-> skills, certifications |-> certs,
     education |-> edus]

\* A professional object without any nested collection.
BareProf(id, years) ==
    [professional_id |-> id, years_experience |-> years,
     current_industry |-> "Tech", current_role |-> "Engineer",
     education_level |-> "BSc"]

JobP1 == <<Job("J1", "2020-01-01", None)>>
JobP2 == <<Job("J2", "2021-01-01", None)>>

Families == {"professional", "job", "skill", "certification", "education"}

\* Professional objects of a family, by professional.
Objects(fam, id) ==
    CASE fam = "professional" /\ id = "P1" ->
            {Prof("P1", 5, JobP1, <<Skill("Python", "expert")>>, <<>>, <<>>),
             Prof("P1", 6, JobP1, <<>>, <<>>, <<>>)}
      [] fam = "professional" /\ id = "P2" ->
            {Prof("P2", 3, JobP2, <<Skill("SQL", "beginner")>>, <<>>, <<>>),
             BareProf(None, 1)}
      [] fam = "job" /\ id = "P1" ->
            {Prof("P1", 5, <<Job("J1", "2020-01-01", "2021-01-01"),
                             Job("J2", "2021-02-01", None)>>, <<>>, <<>>, <<>>),
             Prof("P1", 5, <<Job("J1", "2020-01-01", "2021-01-01"),
                             Job("J2", "2021-02-01", None),
                             Job("J3", "2022-01-01", None)>>, <<>>, <<>>, <<>>),
             Prof("P1", 5, <<Job("J3", "2021-01-01", "2020-01-01")>>,
                  <<>>, <<>>, <<>>),
             Prof("P1", 5, <<Job("J1", "2022-01-01", "not-a-date")>>,
                  <<>>, <<>>, <<>>)}
      [] fam = "job" /\ id = "P2" ->
            {Prof("P2", 3, <<Job("J4", "2020-01-01", None)>>, <<>>, <<>>, <<>>),
             Prof("P2", 3, <<Job("J1", "not-a-date", None)>>, <<>>, <<>>, <<>>)}
      [] fam = "skill" /\ id = "P1" ->
            {Prof("P1", 5, JobP1, <<Skill("Python", "expert"),
                                    Skill("SQL", "beginner")>>, <<>>, <<>>),
             Prof("P1", 5, JobP1, <<Skill("Python", "beginner")>>, <<>>, <<>>),
             Prof("P1", 5, JobP1, <<>>, <<>>, <<>>)}
      [] fam = "skill" /\ id = "P2" ->
            {Prof("P2", 3, JobP2, <<Skill("Python", "expert")>>, <<>>, <<>>),
             Prof("P2", 3, JobP2, <<>>, <<>>, <<>>)}
      [] fam = "certification" /\ id = "P1" ->
            {Prof("P1", 5, JobP1, <<>>, <<Cert("C1", "AWS", "2020-01-01")>>, <<>>),
             Prof("P1", 5, JobP1, <<>>, <<Cert("C1", "AWS v2", "2021-01-01")>>, <<>>),
             Prof("P1", 5, JobP1, <<>>, <<>>, <<>>)}
      [] fam = "certification" /\ id = "P2" ->
            {Prof("P2", 3, JobP2, <<>>, <<Cert("C1", "AWS", "2020-01-01")>>, <<>>),
             Prof("P2", 3, JobP2, <<>>, <<Cert("C2", "GCP", "not-a-date")>>, <<>>),
             Prof("P2", 3, JobP2, <<>>, <<Cert("C1", "AWS", "2021-01-01"),
                                          Cert("C2", "GCP", None)>>, <<>>)}
      [] fam = "education" /\ id = "P1" ->
            {Prof("P1", 5, JobP1, <<>>, <<>>, <<Edu("E1", "BSc", "2020-01-01")>>),
             Prof("P1", 5, JobP1, <<>>, <<>>, <<Edu("E1", "MSc", "2021-01-01")>>),
             Prof("P1", 5, JobP1, <<>>, <<>>, <<>>)}
      [] fam = "education" /\ id = "P2" ->
            {Prof("P2", 3, JobP2, <<>>, <<>>, <<Edu("E1", "BSc", "2020-01-01")>>),
             Prof("P2", 3, JobP2, <<>>, <<>>, <<Edu("E2", "PhD", "not-a-date")>>),
             Prof("P2", 3, JobP2, <<>>, <<>>,
                  <<Edu("E1", "BSc", "2021-01-01"),
                    [degree |-> "Cert", institution |-> "Uni",
                     field_of_study |-> "CS", graduation_date |-> None]>>)}

\* The documents of a family: no professional, one, or two.  Two objects of
\* the same professional occur in the "professional" family only.
Documents(fam) ==
    LET one == Objects(fam, "P1") \cup Objects(fam, "P2")
        two == IF fam = "professional"
               THEN {<<a, b>> : a \in one, b \in one}
               ELSE {<<a, b>> : a \in Objects(fam, "P1"),
                                b \in Objects(fam, "P2")}
                    \cup {<<b, a>> : a \in Objects(fam, "P1"),
                                     b \in Objects(fam, "P2")}
    IN  {[professionals |-> ps] : ps \in {<<>>} \cup {<<a>> : a \in one} \cup two}

\* The latest invocation handed no document to a loader.
NoData == [professionals |-> None]

\* The documents that pass lines 12-88, with the frames handed to the loader
\* (lines 61-67 and 82-83), per family.
Loadable ==
    Table([f \in Families |->
        {[data |-> d, dfs |-> Validate(Flatten(d))] :
            d \in {x \in Documents(f) : ~ValidationRaises(Flatten(x))}}])

\* The documents on which the validation raises KeyError, per family.
Unloadable ==
    Table([f \in Families |-> {x \in Documents(f) : ValidationRaises(Flatten(x))}])

\* Whether a frame holds two rows of one professional, whose relative order
\* under ORDER BY professional_id is open.
HasTies(rows) ==
    \E i, j \in 1..Len(rows) : i < j /\ rows[i].professional_id = rows[j].professional_id

TieOrders(dfs) ==
    IF HasTies(dfs.skills) \/ HasTies(dfs.certifications) \/ HasTies(dfs.education)
    THEN {"fwd", "rev"} ELSE {"fwd"}

-----------------------------------------------------------------------------
(* The state machine *)

VARIABLES
    dim_professional, fact_professional_job, fact_professional_skill,
    dim_certification, dim_education,
    fact_professional_certification, fact_professional_education,
    family,          \* the document family of this behaviour
    runs,            \* invocations of run_etl_pipeline so far
    returned,        \* outcome of the latest invocation: "True", "False", the
                     \* name of the exception that escaped; None before any
    called,          \* the loader it called: "full_refresh",
                     \* "incremental_load"; None if it called none
    data,            \* the document whose frames it handed to that loader
    loader_returned, \* what that loader returned: "True", "False"
    error,           \* the statement that raised inside that loader, or None
    warnings,        \* invalid_dates of the latest validation that completed
    after_full,      \* the invocation before it called full_refresh with
                     \* the same document, and full_refresh returned True
    jobs_before      \* rows of fact_professional_job when the latest
                     \* invocation began

tables ==
    <<dim_professional, fact_professional_job, fact_professional_skill,
      dim_certification, dim_education,
      fact_professional_certification, fact_professional_education>>

vars ==
    <<dim_professional, fact_professional_job, fact_professional_skill,
      dim_certification, dim_education,
      fact_professional_certification, fact_professional_education,
      family, runs, returned, called, data, loader_returned, error, warnings,
      after_full, jobs_before>>

\* The store as a value, and a store value written back to the variables.
Store ==
    [dim_professional                |-> dim_professional,
     fact_professional_job           |-> fact_professional_job,
     fact_professional_skill         |-> fact_professional_skill,
     dim_certification               |-> dim_certification,
     dim_education                   |-> dim_education,
     fact_professional_certification |-> fact_professional_certification,
     fact_professional_education     |-> fact_professional_education,
     error                           |-> None]

Commit(s) ==
    /\ dim_professional' = s.dim_professional
    /\ fact_professional_job' = s.fact_professional_job
    /\ fact_professional_skill' = s.fact_professional_skill
    /\ dim_certification' = s.dim_certification
    /\ dim_education' = s.dim_education
    /\ fact_professional_certification' = s.fact_professional_certification
    /\ fact_professional_education' = s.fact_professional_education

\* The output store does not exist before the first run: create_tables makes
\* the seven tables, empty.
Init ==
    /\ dim_professional = create_tables.dim_professional
    /\ fact_professional_job = create_tables.fact_professional_job
    /\ fact_professional_skill = create_tables.fact_professional_skill
    /\ dim_certification = create_tables.dim_certification
    /\ dim_education = create_tables.dim_education
    /\ fact_professional_certification = create_tables.fact_professional_certification
    /\ fact_professional_education = create_tables.fact_professional_education
    /\ family \in Families
    /\ runs = 0
    /\ returned = None
    /\ called = None
    /\ data = NoData
    /\ loader_returned = None
    /\ error = None
    /\ warnings = 0
    /\ after_full = FALSE
    /\ jobs_before = 0

\* An invocation that calls no loader leaves the store as it is.
NoLoader(outcome) ==
    /\ runs < MaxRuns
    /\ runs' = runs + 1
    /\ returned' = outcome
    /\ called' = None
    /\ data' = NoData
    /\ loader_returned' = None
    /\ error' = None
    /\ after_full' = FALSE
    /\ jobs_before' = Len(fact_professional_job)
    /\ UNCHANGED <<tables, family>>

\* Lines 9-10: open or json.load raises; there is no handler around them.
ReadRaises ==
    /\ NoLoader("OSError or JSONDecodeError")
    /\ UNCHANGED warnings

\* Lines 12-88 on a document without professionals or without jobs: the
\* column lookup of the validation raises KeyError; there is no handler.
ValidationKeyError ==
    /\ Unloadable[family] # {}
    /\ NoLoader("KeyError")
    /\ UNCHANGED warnings

\* Lines 91-97 and 112-114: duckdb.connect (or a register) raises inside the
\* try block; the handler prints the error and returns False.
ConnectRaises ==
    /\ \E in \in Loadable[family] : warnings' = invalid_dates(in.dfs)
    /\ NoLoader("False")

\* Lines 98-111 around a loader call: its return value is not looked at; the
\* row counts are printed, the connection closed and True returned.
CallLoader(name, in, s) ==
    /\ runs < MaxRuns
    /\ runs' = runs + 1
    /\ warnings' = invalid_dates(in.dfs)
    /\ Commit(s)
    /\ called' = name
    /\ data' = in.data
    /\ error' = s.error
    /\ loader_returned' = (IF s.error = None THEN "True" ELSE "False")
    /\ returned' = "True"
    /\ jobs_before' = Len(fact_professional_job)
    /\ after_full' = /\ called = "full_refresh"
                      /\ loader_returned = "True"
                      /\ data = in.data
    /\ UNCHANGED family

\* run_etl_pipeline(input_file, output_db, incremental=False)
RunFullRefresh ==
    \E in \in Loadable[family] : \E ties \in TieOrders(in.dfs) :
        \E s \in {full_refresh(Store, in.dfs, ties)} :
            CallLoader("full_refresh", in, s)

\* run_etl_pipeline(input_file, output_db, incremental=True)
RunIncremental ==
    \E in \in Loadable[family] : \E ties \in TieOrders(in.dfs) :
        \E s \in {incremental_load(Store, in.dfs, ties)} :
            CallLoader("incremental_load", in, s)

Next ==
    \/ ReadRaises
    \/ ValidationKeyError
    \/ ConnectRaises
    \/ RunFullRefresh
    \/ RunIncremental

Spec == Init /\ [][Next]_vars

-----------------------------------------------------------------------------
(* Properties *)

\* The frames run_etl_pipeline hands to its loader for a document.
BatchOf(doc) == Validate(Flatten(doc))

\* The frames the latest invocation handed to its loader.
Batch == BatchOf(data)

Column(rows, column) == {rows[i][column] : i \in 1..Len(rows)}

Count(rows, Test(_)) == Cardinality({i \in 1..Len(rows) : Test(rows[i])})

UniqueKey(table, key) ==
    \A i, j \in 1..Len(table) : i # j => table[i][key] # table[j][key]

\* C1: after any sequence of full-refresh and incremental loads, also of
\* batches in which one certification_id or education_id comes with
\* different descriptive attributes, dim_certification holds no two rows
\* with the same certification_id and dim_education no two rows with the
\* same education_id.
C1_DimensionKeysUnique ==
    /\ UniqueKey(dim_certification, "certification_id")
    /\ UniqueKey(dim_education, "education_id")

\* C1 witness: an incremental load whose batch names a stored
\* certification_id under another certification_name.
C1_Witness ==
    /\ called = "incremental_load"
    /\ \E i \in 1..Len(Batch.certifications), j \in 1..Len(dim_certification) :
          /\ Batch.certifications[i].certification_id =
                dim_certification[j].certification_id
          /\ Batch.certifications[i].certification_name #
                dim_certification[j].certification_name

RowCounts ==
    <<Len(dim_professional), Len(fact_professional_job),
      Len(fact_professional_skill), Len(dim_certification), Len(dim_education),
      Len(fact_professional_certification), Len(fact_professional_education)>>

\* Two tables hold the same rows, each as often (order aside).
SameRows(t, u) ==
    /\ Len(t) = Len(u)
    /\ \A r \in Range(t) \cup Range(u) :
          Count(t, LAMBDA x : x = r) = Count(u, LAMBDA x : x = r)

\* C2: after a full_refresh that completed (returned True), from any prior
\* store state, every table holds exactly what the current batch
\* determines; in particular the two dimensions hold no row that came only
\* from an earlier load.
C2_FullRefreshExact ==
    (called = "full_refresh" /\ loader_returned = "True") =>
        /\ SameRows(dim_professional, Batch.professionals)
        /\ SameRows(fact_professional_job, Batch.jobs)
        /\ Len(fact_professional_skill) = Len(Batch.skills)
        /\ Len(fact_professional_certification) = Len(Batch.certifications)
        /\ Len(fact_professional_education) = Len(Batch.education)
        /\ Range(dim_certification) =
              Range(Map(Batch.certifications, DimCertificationRow))
        /\ Range(dim_education) = Range(Map(Batch.education, DimEducationRow))

\* C3: full_refresh run twice in a row on the same unchanged batch leaves
\* every table with the row count it had after the first run.
C3_FullRefreshIdempotent ==
    [][(called = "full_refresh" /\ called' = "full_refresh" /\ data' = data)
          => RowCounts' = RowCounts]_vars

\* C3 witness: the second of two full refreshes of one batch that loads
\* rows into a fact table, a bridge table and a dimension.
C3_Witness ==
    /\ called = "full_refresh"
    /\ after_full
    /\ Len(fact_professional_job) > 0
    /\ (Len(fact_professional_certification) > 0 \/ Len(fact_professional_skill) > 0)

BridgesUnchanged ==
    UNCHANGED <<fact_professional_job, fact_professional_certification,
                fact_professional_education>>

\* C4 as stated: for every batch, an incremental_load of the batch right
\* after a full_refresh of the same batch inserts no row into
\* fact_professional_job, fact_professional_certification and
\* fact_professional_education.
C4_NoNewRowsAfterFull ==
    [][(called = "full_refresh" /\ called' = "incremental_load" /\ data' = data)
          => BridgesUnchanged]_vars

\* C4 amended: the same after a full_refresh of the batch that returned True.
C4_NoNewRowsAfterSuccessfulFull ==
    [][(/\ called = "full_refresh"
        /\ loader_returned = "True"
        /\ called' = "incremental_load"
        /\ data' = data)
          => BridgesUnchanged]_vars

\* C4 witness: an incremental load right after a successful full refresh of
\* the same batch, which carries dated jobs and dated bridge rows.
C4_Witness ==
    /\ called = "incremental_load"
    /\ after_full
    /\ \E i \in 1..Len(fact_professional_job) :
          fact_professional_job[i].start_date # NaT
    /\ \/ \E i \in 1..Len(fact_professional_certification) :
             fact_professional_certification[i].date_earned # NaT
       \/ \E i \in 1..Len(fact_professional_education) :
             fact_professional_education[i].graduation_date # NaT

\* C5: run_etl_pipeline returns True only if the loader it ran returned True.
C5_ReportsLoaderFailure == returned = "True" => loader_returned = "True"

\* C6: every row of fact_professional_job has is_current true if and only if
\* its stored end_date is NULL.
C6_CurrentIffNoEndDate ==
    \A i \in 1..Len(fact_professional_job) :
        fact_professional_job[i].is_current
            <=> fact_professional_job[i].end_date = NaT

\* C7: after a full refresh dim_professional has as many rows as the input
\* has distinct professional identifiers.
C7_OneRowPerProfessional ==
    called = "full_refresh" =>
        Len(dim_professional) =
            Cardinality(Column(Batch.professionals, "professional_id") \ {None})

\* The start date of batch job j exceeds the largest start date recorded for
\* its professional (1900-01-01 when none is recorded).
StartsAfterRecorded(j) ==
    LET recorded == {fact_professional_job[i].start_date :
                        i \in {k \in 1..Len(fact_professional_job) :
                                  fact_professional_job[k].professional_id =
                                      j.professional_id}} \ {NaT}
    IN  /\ j.start_date # NaT
        /\ IF recorded = {} THEN j.start_date > EpochFloor
           ELSE \A d \in recorded : j.start_date > d

\* C8 as stated: an incremental load inserts a batch job row exactly when
\* its start date is strictly greater than the maximum start date recorded
\* for its professional before the load.
C8_InsertsExactlyLaterJobs ==
    [][called' = "incremental_load" =>
          fact_professional_job' =
              fact_professional_job
                  \o SelectSeq(BatchOf(data').jobs, StartsAfterRecorded)]_vars

\* C8 amended: those are the rows the job statement selects.  It inserts
\* them all when the professional step before it did not raise (the batch's
\* professional ids are present and distinct) and the selected rows satisfy
\* the job_id primary key (present, distinct, not stored yet); otherwise the
\* load inserts no job row.
C8_InsertsLaterJobsOrNone ==
    [][called' = "incremental_load" =>
          LET profs == BatchOf(data').professionals
              later == SelectSeq(BatchOf(data').jobs, StartsAfterRecorded)
              reached == /\ None \notin Column(profs, "professional_id")
                         /\ UniqueKey(profs, "professional_id")
              accepted == /\ None \notin Column(later, "job_id")
                          /\ UniqueKey(later, "job_id")
                          /\ Column(later, "job_id")
                                \cap Column(fact_professional_job, "job_id") = {}
          IN  fact_professional_job' =
                  IF reached /\ accepted THEN fact_professional_job \o later
                  ELSE fact_professional_job]_vars

\* C8 witness: the J1/J2/J3 scenario.  J1 and J2 of P1 are stored, the batch
\* re-sends them with the later J3, and the table ends with 3 rows.
C8_Witness ==
    /\ called = "incremental_load"
    /\ Column(Batch.jobs, "job_id") = {"J1", "J2", "J3"}
    /\ jobs_before = 2
    /\ Len(fact_professional_job) = 3
    /\ Column(fact_professional_job, "job_id") = {"J1", "J2", "J3"}
    /\ \A i \in 1..3 : fact_professional_job[i].professional_id = "P1"

\* C9: an invocation of run_etl_pipeline ends by returning a boolean, never
\* by raising.
C9_NeverRaises == returned \in {None, "True", "False"}

\* Certification c is held as one and the same certification in the batch:
\* its rows agree on name and issuing organization and no professional
\* lists it twice.
HeldAlike(c) ==
    /\ c # None
    /\ \A i, j \in 1..Len(Batch.certifications) :
          LET a == Batch.certifications[i]
              b == Batch.certifications[j]
          IN  (a.certification_id = c /\ b.certification_id = c) =>
                 /\ a.certification_name = b.certification_name
                 /\ a.issuing_organization = b.issuing_organization
                 /\ (i # j => a.professional_id # b.professional_id)

Holders(c) ==
    {Batch.certifications[i].professional_id :
        i \in {k \in 1..Len(Batch.certifications) :
                  Batch.certifications[k].certification_id = c}}

OneDimRowAndOneBridgeRowPerHolder(c) ==
    /\ Count(dim_certification, LAMBDA d : d.certification_id = c) = 1
    /\ Count(fact_professional_certification,
             LAMBDA r : r.certification_id = c) = Cardinality(Holders(c))
    /\ \A p \in Holders(c) :
          Count(fact_professional_certification,
                LAMBDA r : r.certification_id = c /\ r.professional_id = p) = 1

\* C10 as stated: when k professionals of a batch hold the same
\* certification, a full refresh produces exactly one dim_certification row
\* for it and exactly k bridge rows, one per holder.
C10_SharedCertification ==
    called = "full_refresh" =>
        \A c \in Column(Batch.certifications, "certification_id") :
            HeldAlike(c) => OneDimRowAndOneBridgeRowPerHolder(c)

\* C10 amended: the same for a full refresh that returned True.
C10_SharedCertificationLoaded ==
    (called = "full_refresh" /\ loader_returned = "True") =>
        \A c \in Column(Batch.certifications, "certification_id") :
            HeldAlike(c) => OneDimRowAndOneBridgeRowPerHolder(c)

\* C10 witness: a successful full refresh of a batch in which two
\* professionals hold the same certification.
C10_Witness ==
    /\ called = "full_refresh"
    /\ loader_returned = "True"
    /\ \E c \in Column(Batch.certifications, "certification_id") :
          HeldAlike(c) /\ Cardinality(Holders(c)) = 2

\* The date value `handed` to the loader is the flattened value `raw`:
\* absent for an absent one, the same day for a date string.
SameDate(raw, handed) ==
    IF raw = None THEN handed = NaT
    ELSE raw \in DOMAIN DateOrdinal /\ handed = DateOrdinal[raw]

\* Flattened jobs whose two dates both parse and whose end precedes its start.
Inverted(jobs) ==
    {i \in 1..Len(jobs) :
        /\ jobs[i].start_date \in DOMAIN DateOrdinal
        /\ jobs[i].end_date \in DOMAIN DateOrdinal
        /\ DateOrdinal[jobs[i].end_date] < DateOrdinal[jobs[i].start_date]}

\* C11: validation never halts the invocation; the warning count is the
\* number of jobs whose two dates parse with end < start; and the job
\* records handed to the loader carry the date values of the flattened
\* records.
C11_ValidationIsPassive ==
    /\ returned # "KeyError"
    /\ called # None =>
          LET flat == Flatten(data).jobs
          IN  /\ warnings = Cardinality(Inverted(flat))
              /\ Len(Batch.jobs) = Len(flat)
              /\ \A i \in 1..Len(flat) :
                    /\ SameDate(flat[i].start_date, Batch.jobs[i].start_date)
                    /\ SameDate(flat[i].end_date, Batch.jobs[i].end_date)

\* The skills of professional p among rows, as (name, level) pairs, and
\* how many rows carry them.
SkillSet(rows, p) ==
    {<<rows[i].skill_name, rows[i].proficiency_level>> :
        i \in {k \in 1..Len(rows) : rows[k].professional_id = p}}

SkillCount(rows, p) == Count(rows, LAMBDA r : r.professional_id = p)

\* C12: after a successful incremental load the skill rows of every
\* professional of the batch are that professional's skills in the batch
\* (none when the batch gives none), and the skill rows of every other
\* professional are the rows it had before.
C12_SkillsReplacedPerProfessional ==
    [][(called' = "incremental_load" /\ loader_returned' = "True") =>
          LET batch == BatchOf(data')
              ids == Column(batch.professionals, "professional_id")
          IN  /\ \A p \in ids :
                    /\ SkillSet(fact_professional_skill', p)
                          = SkillSet(batch.skills, p)
                    /\ SkillCount(fact_professional_skill', p)
                          = SkillCount(batch.skills, p)
              /\ SelectSeq(fact_professional_skill',
                           LAMBDA r : r.professional_id \notin ids)
                    = SelectSeq(fact_professional_skill,
                                LAMBDA r : r.professional_id \notin ids)]_vars

Step(verb, table) == [statement |-> verb \o " " \o table, table |-> table]

\* The statements of the two loaders in program order, with the table each
\* writes.
FullSteps ==
    <<Step("DELETE", "fact_professional_education"),
      Step("DELETE", "fact_professional_certification"),
      Step("DELETE", "fact_professional_skill"),
      Step("DELETE", "fact_professional_job"),
      Step("DELETE", "dim_professional"),
      Step("INSERT", "dim_professional"),
      Step("INSERT", "fact_professional_job"),
      Step("INSERT", "fact_professional_skill"),
      Step("DELETE", "dim_certification"),
      Step("INSERT", "dim_certification"),
      Step("INSERT", "fact_professional_certification"),
      Step("DELETE", "dim_education"),
      Step("INSERT", "dim_education"),
      Step("INSERT", "fact_professional_education")>>

IncrementalSteps ==
    <<Step("DELETE", "dim_professional"),
      Step("INSERT", "dim_professional"),
      Step("INSERT", "fact_professional_job"),
      Step("DELETE", "fact_professional_skill"),
      Step("INSERT", "fact_professional_skill"),
      Step("INSERT", "dim_certification"),
      Step("INSERT", "fact_professional_certification"),
      Step("INSERT", "dim_education"),
      Step("INSERT", "fact_professional_education")>>

StepsOf(loader) == IF loader = "full_refresh" THEN FullSteps ELSE IncrementalSteps

\* The position of a statement among steps (0 when it is none of them).
Position(steps, statement) ==
    IF \E i \in 1..Len(steps) : steps[i].statement = statement
    THEN CHOOSE i \in 1..Len(steps) : steps[i].statement = statement
    ELSE 0

\* C13: when a statement of a loader raises, the loader returns False; no
\* statement at or after the failing one has written (a table written only
\* from there on is as before the load); and what the statements before it
\* wrote remains: a full refresh leaves the tables it cleared empty or
\* holding the batch rows already inserted, and an incremental load whose
\* professional insert raises has removed the batch's professional rows.
C13_FailureKeepsEarlierSteps ==
    [][(called' # None /\ error' # None) =>
          LET steps == StepsOf(called')
              failed == Position(steps, error')
              batch == BatchOf(data')
              ids == Column(batch.professionals, "professional_id")
              Before(statement) == Position(steps, statement) < failed
          IN  /\ failed > 0
              /\ loader_returned' = "False"
              /\ \A t \in TableNames :
                    (\A i \in 1..Len(steps) : steps[i].table = t => i >= failed)
                        => Store'[t] = Store[t]
              /\ called' = "full_refresh" =>
                    /\ dim_professional' =
                          IF Before("INSERT dim_professional")
                          THEN batch.professionals ELSE <<>>
                    /\ fact_professional_job' =
                          IF Before("INSERT fact_professional_job")
                          THEN batch.jobs ELSE <<>>
                    /\ ~Before("INSERT fact_professional_skill")
                          => fact_professional_skill' = <<>>
                    /\ ~Before("INSERT fact_professional_certification")
                          => fact_professional_certification' = <<>>
                    /\ fact_professional_education' = <<>>
              /\ (called' = "incremental_load"
                    /\ error' = "INSERT dim_professional") =>
                    dim_professional' =
                        SelectSeq(dim_professional,
                                  LAMBDA r : r.professional_id \notin ids)]_vars

\* C13 witness: an incremental load whose professional insert raised, after
\* its delete removed the rows of the professionals whose jobs an earlier
\* load stored.
C13_Witness ==
    /\ called = "incremental_load"
    /\ error = "INSERT dim_professional"
    /\ loader_returned = "False"
    /\ dim_professional = <<>>
    /\ jobs_before > 0
    /\ Len(fact_professional_job) = jobs_before

\* The dimension tuples of the batch whose key has no row in dim can be
\* inserted together: their keys are present and no key comes with two
\* different tuples.
NewKeysInsertable(tuples, dim, key) ==
    LET new == {t \in Range(tuples) : t[key] \notin Column(dim, key)}
    IN  /\ \A t \in new : t[key] # None
        /\ \A t, u \in new : t[key] = u[key] => t = u

\* The dimension step of an incremental load neither adds a row for a key
\* that dim already holds nor raises, whatever attributes the batch gives
\* for such a key.
SkipsStoredKeys(tuples, dim, dimAfter, key, statement) ==
    /\ \A k \in Column(dim, key) :
          Count(dimAfter, LAMBDA r : r[key] = k) = Count(dim, LAMBDA r : r[key] = k)
    /\ NewKeysInsertable(tuples, dim, key) => error' # statement

\* C14: the incremental certification and education dimension steps insert
\* only keys absent from the dimension; a batch row whose key is already
\* stored is not inserted again and does not make the step fail, whether or
\* not its attributes differ from the stored row.
C14_DimensionStepSkipsStoredKeys ==
    [][called' = "incremental_load" =>
          LET batch == BatchOf(data')
          IN  /\ SkipsStoredKeys(Map(batch.certifications, DimCertificationRow),
                                 dim_certification, dim_certification',
                                 "certification_id", "INSERT dim_certification")
              /\ SkipsStoredKeys(Map(batch.education, DimEducationRow),
                                 dim_education, dim_education',
                                 "education_id", "INSERT dim_education")]_vars

\* C15: after a successful incremental load dim_professional holds, for each
\* professional identifier of the batch, exactly one row, which is the
\* batch's row; the rows of the other identifiers are the rows held before.
C15_ProfessionalsUpserted ==
    [][(called' = "incremental_load" /\ loader_returned' = "True") =>
          LET profs == BatchOf(data').professionals
              ids == Column(profs, "professional_id")
          IN  /\ \A p \in ids :
                    /\ Count(dim_professional',
                             LAMBDA r : r.professional_id = p) = 1
                    /\ \E i \in 1..Len(profs) :
                          /\ profs[i].professional_id = p
                          /\ profs[i] \in Range(dim_professional')
              /\ SelectSeq(dim_professional',
                           LAMBDA r : r.professional_id \notin ids)
                    = SelectSeq(dim_professional,
                                LAMBDA r : r.professional_id \notin ids)]_vars

\* C15 witness: P1 and P2 were loaded earlier; a successful incremental load
\* of a batch with P1 alone leaves P2's row and stores P1's batch row.
C15_Witness ==
    /\ called = "incremental_load"
    /\ loader_returned = "True"
    /\ jobs_before = 2
    /\ Column(Batch.professionals, "professional_id") = {"P1"}
    /\ Len(dim_professional) = 2
    /\ dim_professional[1].professional_id = "P2"
    /\ dim_professional[2] = Batch.professionals[1]
    /\ dim_professional[2].years_experience = 6

\* Every row of table t before the step is a row of t after it, unmodified
\* and in place: the step has at most appended rows.
Kept(t) == /\ Len(Store'[t]) >= Len(Store[t])
           /\ SubSeq(Store'[t], 1, Len(Store[t])) = Store[t]

\* C16 as stated: an incremental load keeps every row of the job, skill,
\* certification-bridge and education-bridge tables and of the
\* certification and education dimensions.
C16_IncrementalKeepsRows ==
    [][called' = "incremental_load" =>
          \A t \in TableNames \ {"dim_professional"} : Kept(t)]_vars

\* C16 amended: it keeps every row of those tables except
\* fact_professional_skill; there it keeps the rows of the professionals
\* that list no skill in the batch (the rows of the others are deleted and
\* replaced by the batch's when the skill step is reached).
C16_IncrementalKeepsRowsButSkills ==
    [][called' = "incremental_load" =>
          LET listing == Column(BatchOf(data').skills, "professional_id")
          IN  /\ \A t \in TableNames \ {"dim_professional",
                                        "fact_professional_skill"} : Kept(t)
              /\ SelectSeq(fact_professional_skill',
                           LAMBDA r : r.professional_id \notin listing)
                    = SelectSeq(fact_professional_skill,
                                LAMBDA r : r.professional_id \notin listing)]_vars

\* C16 witness: a successful incremental load on a store that held job rows
\* has added job rows behind them.
C16_Witness ==
    /\ called = "incremental_load"
    /\ error = None
    /\ jobs_before > 0
    /\ Len(fact_professional_job) > jobs_before

\* The surrogate ids of rows are 1..n, each used once, and grow with the
\* professional reference.
NumberedByProfessional(rows) ==
    /\ \A k \in 1..Len(rows) : Count(rows, LAMBDA r : r.id = k) = 1
    /\ \A i, j \in 1..Len(rows) :
          rows[i].id < rows[j].id =>
              Collate(rows[i].professional_id) <= Collate(rows[j].professional_id)

\* C17: after a successful full refresh, whatever the store held before, the
\* surrogate ids of fact_professional_skill, fact_professional_certification
\* and fact_professional_education are exactly 1..n each, in non-decreasing
\* order of professional_id.
C17_SurrogateIdsRestart ==
    (called = "full_refresh" /\ loader_returned = "True") =>
        /\ NumberedByProfessional(fact_professional_skill)
        /\ NumberedByProfessional(fact_professional_certification)
        /\ NumberedByProfessional(fact_professional_education)

\* C17 witness: a successful full refresh, right after a successful full
\* refresh of the same batch, which lists P2's skill before P1's; the row
\* numbered 1 is P1's.
C17_Witness ==
    /\ called = "full_refresh"
    /\ loader_returned = "True"
    /\ after_full
    /\ Len(Batch.skills) > 1
    /\ Batch.skills[1].professional_id = "P2"
    /\ \E i \in 1..Len(fact_professional_skill) :
          /\ fact_professional_skill[i].id = 1
          /\ fact_professional_skill[i].professional_id = "P1"

\* C18: in every reachable store, also after a load that failed part-way,
\* every row of the four fact tables names a professional that has a row in
\* dim_professional.
C18_FactsReferenceProfessional ==
    \A t \in {"fact_professional_job", "fact_professional_skill",
              "fact_professional_certification", "fact_professional_education"} :
        Column(Store[t], "professional_id")
            \subseteq Column(dim_professional, "professional_id")

=============================================================================
